---- MODULE Spec2Model ----
(***************************************************************************)
(* Name-case and pluralization engine of the rustisan CLI.                 *)
(*                                                                         *)
(* A string is a sequence of characters; a character is a TLA+ string:     *)
(* an ASCII character is written as itself ("a", "_"), any other one by    *)
(* its code point ("U+00E9").  Rust indexes strings by UTF-8 byte offset,  *)
(* so every character carries its encoded length and a slice that is out   *)
(* of range or off a character boundary is a panic.                        *)
(***************************************************************************)
EXTENDS Integers, Sequences, FiniteSets, TLC

VARIABLES
    \* the engine: the string supplied, the operations called, their results
    input, calls, outputs,
    \* config: the file rustisan.toml and the outcome of the last command
    rustisan_toml, last_command,
    \* queue:work: its arguments, its counter, the jobs handed to
    \* mark_job_as_failed, the job of this iteration, where the worker is
    \* and what made it leave the loop
    max_jobs, memory, processed_jobs, failed_jobs, job, worker, stopped_by,
    \* serve: --reload, where the serve command is, what it returned, whether
    \* SIGINT was delivered to it, the child process and its exit status, the
    \* holder of the Mutex around the Child, the spawn_blocking closure
    reload, serve, serve_result, ctrl_c, child, exit_status, child_mutex,
    blocking_task

engine_vars == <<input, calls, outputs>>
config_vars == <<rustisan_toml, last_command>>
queue_vars == <<max_jobs, memory, processed_jobs, failed_jobs, job, worker, stopped_by>>
serve_vars ==
    <<reload, serve, serve_result, ctrl_c, child, exit_status, child_mutex, blocking_task>>

vars == <<engine_vars, config_vars, queue_vars, serve_vars>>

-----------------------------------------------------------------------------
(* Bounds of the model.                                                    *)

\* longest identifier enumerated for the case conversions
MaxLen == 4

\* longest word ending enumerated for pluralize / singularize
MaxWordLen == 3

-----------------------------------------------------------------------------
(* Characters.                                                             *)

\* "abc" as the sequence <<"a", "b", "c">>
W(s) == [i \in 1..Len(s) |-> SubSeq(s, i, i)]

AsciiUpper == W("ABCDEFGHIJKLMNOPQRSTUVWXYZ")
AsciiLower == W("abcdefghijklmnopqrstuvwxyz")

Range(f) == {f[i] : i \in DOMAIN f}

\* LATIN SMALL LETTER E WITH ACUTE, 2 bytes
E_ACUTE == "U+00E9"
\* LATIN CAPITAL LETTER E WITH ACUTE, 2 bytes
CAP_E_ACUTE == "U+00C9"
\* KELVIN SIGN, 3 bytes: uppercase, its lowercase is the ASCII "k"
KELVIN == "U+212A"
\* MATHEMATICAL BOLD CAPITAL A, 4 bytes: uppercase, no lowercase mapping
MATH_BOLD_A == "U+1D400"

\* LATIN CAPITAL LETTER I WITH DOT ABOVE, 2 bytes: its lowercase is "i"
\* followed by COMBINING DOT ABOVE, 3 bytes in all
I_DOT == "U+0130"
\* COMBINING DOT ABOVE, 2 bytes, a mark and not a letter
COMBINING_DOT == "U+0307"

IndexIn(table, c) == CHOOSE i \in DOMAIN table : table[i] = c

\* char::len_utf8
len_utf8(c) ==
    IF c \in {E_ACUTE, CAP_E_ACUTE, I_DOT, COMBINING_DOT} THEN 2
    ELSE IF c = KELVIN THEN 3
    ELSE IF c = MATH_BOLD_A THEN 4
    ELSE 1

\* char::is_uppercase
is_uppercase(c) ==
    c \in Range(AsciiUpper) \cup {CAP_E_ACUTE, KELVIN, MATH_BOLD_A, I_DOT}

\* char::is_alphabetic
is_alphabetic(c) ==
    c \in Range(AsciiUpper) \cup Range(AsciiLower)
          \cup {E_ACUTE, CAP_E_ACUTE, KELVIN, MATH_BOLD_A, I_DOT}

\* char::is_alphanumeric: alphabetic or numeric
is_alphanumeric(c) == is_alphabetic(c) \/ c \in Range(W("0123456789"))

\* char::to_lowercase: the characters the iterator yields
char_to_lowercase(c) ==
    IF c \in Range(AsciiUpper) THEN <<AsciiLower[IndexIn(AsciiUpper, c)]>>
    ELSE IF c = CAP_E_ACUTE THEN <<E_ACUTE>>
    ELSE IF c = KELVIN THEN <<"k">>
    ELSE IF c = I_DOT THEN <<"i", COMBINING_DOT>>
    ELSE <<c>>

\* char::to_uppercase: the characters the iterator yields
char_to_uppercase(c) ==
    IF c \in Range(AsciiLower) THEN <<AsciiUpper[IndexIn(AsciiLower, c)]>>
    ELSE IF c = E_ACUTE THEN <<CAP_E_ACUTE>>
    ELSE <<c>>

-----------------------------------------------------------------------------
(* Strings: str::len, byte slices, to_lowercase, ends_with, split, replace  *)

\* the outcome of an operation: the string it returns, or a panic
Ok(s) == [panicked |-> FALSE, value |-> s]
Panicked == [panicked |-> TRUE, value |-> <<>>]

RECURSIVE str_len(_)
\* str::len: the length in bytes
str_len(s) == IF s = <<>> THEN 0 ELSE len_utf8(Head(s)) + str_len(Tail(s))

\* byte offset of the end of the k-th character
ByteOffset(s, k) == str_len(SubSeq(s, 1, k))

\* str::is_char_boundary
is_char_boundary(s, n) == \E k \in 0..Len(s) : ByteOffset(s, k) = n

\* &s[from..to]: offsets are usize, so a negative one is an underflow
str_slice(s, from, to) ==
    IF \/ from < 0 \/ to < 0
       \/ from > to \/ to > str_len(s)
       \/ ~is_char_boundary(s, from) \/ ~is_char_boundary(s, to)
    THEN Panicked
    ELSE LET a == CHOOSE k \in 0..Len(s) : ByteOffset(s, k) = from
             b == CHOOSE k \in 0..Len(s) : ByteOffset(s, k) = to
         IN  Ok(SubSeq(s, a + 1, b))

RECURSIVE str_to_lowercase(_)
\* str::to_lowercase
str_to_lowercase(s) ==
    IF s = <<>> THEN <<>>
    ELSE char_to_lowercase(Head(s)) \o str_to_lowercase(Tail(s))

\* str::ends_with
ends_with(s, suffix) ==
    /\ Len(suffix) <= Len(s)
    /\ SubSeq(s, Len(s) - Len(suffix) + 1, Len(s)) = suffix

RECURSIVE split_from(_, _, _, _)
split_from(s, sep, i, piece) ==
    IF i > Len(s) THEN <<piece>>
    ELSE IF s[i] = sep THEN <<piece>> \o split_from(s, sep, i + 1, <<>>)
    ELSE split_from(s, sep, i + 1, Append(piece, s[i]))

\* str::split(char): the pieces between the separators, empty ones included
split(s, sep) == split_from(s, sep, 1, <<>>)

\* replace that stops after the first occurrence (str::replacen(.., 1))
replace_first(s, from, to) ==
    [i \in 1..Len(s) |->
        IF s[i] = from /\ (\A j \in 1..(i - 1) : s[j] # from) THEN to ELSE s[i]]

\* str::replace(char, &str) with a one-character replacement
replace(s, from, to) == [i \in 1..Len(s) |-> IF s[i] = from THEN to ELSE s[i]]

RECURSIVE concat(_)
\* Iterator<String>::collect::<String>()
concat(pieces) == IF pieces = <<>> THEN <<>> ELSE Head(pieces) \o concat(Tail(pieces))

RECURSIVE join_non_empty(_, _)
\* join that leaves out the empty pieces
join_non_empty(pieces, sep) ==
    IF pieces = <<>> THEN <<>>
    ELSE IF Head(pieces) = <<>> THEN join_non_empty(Tail(pieces), sep)
    ELSE IF Len(pieces) = 1 THEN Head(pieces)
    ELSE Head(pieces) \o sep \o join_non_empty(Tail(pieces), sep)

RECURSIVE join(_, _)
\* [String]::join(&str)
join(pieces, sep) ==
    IF pieces = <<>> THEN <<>>
    ELSE IF Len(pieces) = 1 THEN Head(pieces)
    ELSE Head(pieces) \o sep \o join(Tail(pieces), sep)

\* format!("{}suffix", slice): the slice is evaluated first
format(slice, suffix) == IF slice.panicked THEN Panicked ELSE Ok(slice.value \o suffix)

-----------------------------------------------------------------------------
(* TextUtils: case conversions                                             *)

\* capitalize that also lower-cases the rest of the word
capitalize_lower_rest(word) ==
    IF word = <<>> THEN <<>>
    ELSE char_to_uppercase(Head(word)) \o str_to_lowercase(Tail(word))

\* TextUtils::capitalize, and the closure of to_pascal_case / to_title_case
capitalize(word) ==
    IF word = <<>> THEN <<>>
    ELSE char_to_uppercase(Head(word)) \o Tail(word)

RECURSIVE snake_loop_acronyms(_, _, _)
\* the loop of to_snake_case that keeps a run of upper-case letters together
snake_loop_acronyms(chars, i, result) ==
    IF i >= Len(chars) THEN result
    ELSE LET ch == chars[i + 1]
             pushed == IF i > 0 /\ is_uppercase(ch) /\ ~is_uppercase(chars[i])
                       THEN Append(result, "_") ELSE result
             lower == char_to_lowercase(ch)
         IN  snake_loop_acronyms(chars, i + 1,
                                 Append(pushed, IF lower = <<>> THEN ch ELSE Head(lower)))

RECURSIVE snake_loop(_, _, _)
\* the loop of to_snake_case; i is the 0-based index of enumerate()
snake_loop(chars, i, result) ==
    IF i >= Len(chars) THEN result
    ELSE LET ch == chars[i + 1]
             pushed == IF i > 0 /\ is_uppercase(ch) THEN Append(result, "_") ELSE result
             lower == char_to_lowercase(ch)
         IN  snake_loop(chars, i + 1,
                        Append(pushed, IF lower = <<>> THEN ch ELSE Head(lower)))

\* to_snake_case that lower-cases and marks no word boundary
to_snake_case_no_boundary(s) ==
    [i \in 1..Len(s) |-> Head(char_to_lowercase(s[i]))]

to_snake_case(s) == snake_loop(s, 0, <<>>)

\* to_pascal_case that splits on the hyphen
to_pascal_case_on_hyphen(s) ==
    LET words == split(s, "-")
    IN  concat([k \in 1..Len(words) |-> capitalize(words[k])])

to_pascal_case(s) ==
    LET words == split(s, "_")
    IN  concat([k \in 1..Len(words) |-> capitalize(words[k])])

to_camel_case(s) ==
    LET pascal == to_pascal_case(s)
    IN  IF pascal = <<>> THEN <<>>
        ELSE char_to_lowercase(Head(pascal)) \o Tail(pascal)

to_kebab_case(s) == replace(to_snake_case(s), "_", "-")

-----------------------------------------------------------------------------
(* generators: camelCase and Title Case                                    *)

\* generators::to_camel_case: the rest of the string is the byte slice [1..]
gen_to_camel_case(s) ==
    LET pascal == to_pascal_case(s)
    IN  IF pascal = <<>> THEN Ok(pascal)
        ELSE LET rest == str_slice(pascal, 1, str_len(pascal))
             IN  IF rest.panicked THEN Panicked
                 ELSE Ok(char_to_lowercase(Head(pascal)) \o rest.value)

to_title_case(s) ==
    LET words == split(s, "_")
    IN  join([k \in 1..Len(words) |-> capitalize(words[k])], <<" ">>)

-----------------------------------------------------------------------------
(* TextUtils: pluralize and singularize                                    *)

\* the rule-1 test of pluralize
ends_with_sibilant(lower) ==
    \/ ends_with(lower, W("s")) \/ ends_with(lower, W("sh")) \/ ends_with(lower, W("ch"))
    \/ ends_with(lower, W("x")) \/ ends_with(lower, W("z"))

\* the y-rule test without the vowel exceptions
ends_with_any_y(lower) == ends_with(lower, W("y"))

\* the y-rule test of pluralize: a y that no vowel precedes
ends_with_consonant_y(lower) ==
    /\ ends_with(lower, W("y"))
    /\ ~ends_with(lower, W("ay")) /\ ~ends_with(lower, W("ey"))
    /\ ~ends_with(lower, W("iy")) /\ ~ends_with(lower, W("oy"))
    /\ ~ends_with(lower, W("uy"))

\* pluralize without the guard for the empty word
pluralize_no_guard(word) ==
    LET lower == str_to_lowercase(word)
        n == str_len(word)
    IN  IF ends_with_sibilant(lower) THEN Ok(word \o W("es"))
        ELSE IF ends_with_consonant_y(lower)
             THEN format(str_slice(word, 0, n - 1), W("ies"))
        ELSE IF ends_with(lower, W("f"))
             THEN format(str_slice(word, 0, n - 1), W("ves"))
        ELSE IF ends_with(lower, W("fe"))
             THEN format(str_slice(word, 0, n - 2), W("ves"))
        ELSE Ok(word \o W("s"))

pluralize(word) ==
    IF word = <<>> THEN Ok(word)
    ELSE LET lower == str_to_lowercase(word)
             n == str_len(word)
         IN  IF ends_with_sibilant(lower) THEN Ok(word \o W("es"))
             ELSE IF ends_with_consonant_y(lower)
                  THEN format(str_slice(word, 0, n - 1), W("ies"))
             ELSE IF ends_with(lower, W("f"))
                  THEN format(str_slice(word, 0, n - 1), W("ves"))
             ELSE IF ends_with(lower, W("fe"))
                  THEN format(str_slice(word, 0, n - 2), W("ves"))
             ELSE Ok(word \o W("s"))

\* the "ves" branch of singularize; n is word.len() and also indexes lower
singularize_ves(word, lower, n) ==
    LET before_ves == str_slice(lower, n - 4, n - 3)
    IN  IF n > 4 /\ before_ves.panicked THEN Panicked
        ELSE IF n > 4 /\ before_ves.value = W("l")
             THEN format(str_slice(word, 0, n - 3), W("f"))
        ELSE format(str_slice(word, 0, n - 3), W("fe"))

\* the "es" branch of singularize, entered with n > 2
singularize_es(word, lower, n) ==
    LET before_es == str_slice(lower, n - 3, n - 2)
        two_before == str_slice(lower, n - 4, n - 2)
    IN  IF before_es.panicked THEN Panicked
        ELSE IF before_es.value \in {W("s"), W("x"), W("z")}
             THEN str_slice(word, 0, n - 2)
        ELSE IF n > 3 /\ two_before.panicked THEN Panicked
        ELSE IF n > 3 /\ two_before.value \in {W("sh"), W("ch")}
             THEN str_slice(word, 0, n - 2)
        ELSE str_slice(word, 0, n - 1)

singularize(word) ==
    IF word = <<>> THEN Ok(word)
    ELSE LET lower == str_to_lowercase(word)
             n == str_len(word)
         IN  IF ends_with(lower, W("ies")) THEN format(str_slice(word, 0, n - 3), W("y"))
             ELSE IF ends_with(lower, W("ves")) THEN singularize_ves(word, lower, n)
             ELSE IF ends_with(lower, W("es")) /\ n > 2 THEN singularize_es(word, lower, n)
             ELSE IF ends_with(lower, W("s")) /\ n > 1 THEN str_slice(word, 0, n - 1)
             ELSE Ok(word)

-----------------------------------------------------------------------------
(* generators: pluralize and singularize                                   *)

gen_pluralize(s) ==
    LET lower == str_to_lowercase(s)
        n == str_len(s)
    IN  IF ends_with_consonant_y(lower) THEN format(str_slice(s, 0, n - 1), W("ies"))
        ELSE IF ends_with_sibilant(lower) THEN Ok(s \o W("es"))
        ELSE IF ends_with(lower, W("f")) THEN format(str_slice(s, 0, n - 1), W("ves"))
        ELSE IF ends_with(lower, W("fe")) THEN format(str_slice(s, 0, n - 2), W("ves"))
        ELSE Ok(s \o W("s"))

gen_singularize(s) ==
    LET lower == str_to_lowercase(s)
        n == str_len(s)
    IN  IF ends_with(lower, W("ies")) /\ n > 3 THEN format(str_slice(s, 0, n - 3), W("y"))
        ELSE IF ends_with(lower, W("ves")) /\ n > 3
             THEN IF \/ ends_with(lower, W("aves")) \/ ends_with(lower, W("eves"))
                     \/ ends_with(lower, W("ives")) \/ ends_with(lower, W("oves"))
                  THEN format(str_slice(s, 0, n - 3), W("f"))
                  ELSE format(str_slice(s, 0, n - 3), W("fe"))
        ELSE IF \/ ends_with(lower, W("ses")) \/ ends_with(lower, W("shes"))
                \/ ends_with(lower, W("ches")) \/ ends_with(lower, W("xes"))
                \/ ends_with(lower, W("zes"))
             THEN str_slice(s, 0, n - 2)
        ELSE IF ends_with(lower, W("s")) /\ n > 1 THEN str_slice(s, 0, n - 1)
        ELSE Ok(s)

-----------------------------------------------------------------------------
(* commands/make.rs: the pluralize of make:model --migration               *)

\* tests the word as written, not its lower-cased form
make_pluralize(word) ==
    LET n == str_len(word)
    IN  IF ends_with(word, W("y")) /\ n > 1
        THEN format(str_slice(word, 0, n - 1), W("ies"))
        ELSE IF \/ ends_with(word, W("s")) \/ ends_with(word, W("sh"))
                \/ ends_with(word, W("ch")) \/ ends_with(word, W("x"))
                \/ ends_with(word, W("z"))
        THEN Ok(word \o W("es"))
        ELSE IF ends_with(word, W("f")) THEN format(str_slice(word, 0, n - 1), W("ves"))
        ELSE IF ends_with(word, W("fe")) THEN format(str_slice(word, 0, n - 2), W("ves"))
        ELSE Ok(word \o W("s"))

-----------------------------------------------------------------------------
(* TextUtils::is_valid_identifier                                          *)

\* is_valid_identifier without the test of the first character
is_valid_identifier_any_first(s) ==
    /\ s # <<>>
    /\ \A i \in 1..Len(s) : is_alphanumeric(s[i]) \/ s[i] = "_"

is_valid_identifier(s) ==
    IF s = <<>> THEN FALSE
    ELSE IF ~is_alphabetic(s[1]) /\ s[1] # "_" THEN FALSE
    ELSE \A i \in 2..Len(s) : is_alphanumeric(s[i]) \/ s[i] = "_"

-----------------------------------------------------------------------------
(* GeneratorUtils::name_variations                                         *)

\* generators::to_kebab_case
gen_to_kebab_case(s) == replace(to_snake_case(s), "_", "-")

\* the map is built by eight inserts in this order; a panic in one ends the call
name_variations(name) ==
    LET camel == gen_to_camel_case(name)
        plural == gen_pluralize(name)
        singular == gen_singularize(name)
    IN  IF camel.panicked \/ plural.panicked \/ singular.panicked THEN Panicked
        ELSE Ok([name |-> name,
                 snake_case |-> to_snake_case(name),
                 pascal_case |-> to_pascal_case(name),
                 camel_case |-> camel.value,
                 kebab_case |-> gen_to_kebab_case(name),
                 title_case |-> to_title_case(name),
                 plural |-> plural.value,
                 singular |-> singular.value])

-----------------------------------------------------------------------------
(* commands/config.rs: toml::Value and parse_config_value                   *)

\* toml::Value: the scalar kinds carry their value as text in a canonical
\* form, a table carries its entries as a function from key to Value
Boolean(b) == [kind |-> "Boolean", scalar |-> IF b THEN W("true") ELSE W("false")]
Integer(text) == [kind |-> "Integer", scalar |-> text]
Float(class, negative, mantissa, exp10) ==
    [kind |-> "Float", scalar |-> mantissa, class |-> class,
     negative |-> negative, exp10 |-> exp10]
String(s) == [kind |-> "String", scalar |-> s]
Table(entries) == [kind |-> "Table", entries |-> entries]

Digits == W("0123456789")

is_ascii_digit(c) == c \in Range(Digits)

\* the outcome of str::parse: a value, or Err
ParseOk(v) == [err |-> FALSE, value |-> v]
ParseErr == [err |-> TRUE, value |-> <<>>]

RECURSIVE strip_leading_zeros(_)
strip_leading_zeros(d) ==
    IF d # <<>> /\ Head(d) = "0" THEN strip_leading_zeros(Tail(d)) ELSE d

RECURSIVE strip_trailing_zeros(_)
strip_trailing_zeros(d) ==
    IF d # <<>> /\ d[Len(d)] = "0"
    THEN strip_trailing_zeros(SubSeq(d, 1, Len(d) - 1)) ELSE d

\* a <= b for two digit strings without leading zeros
DigitsLeq(a, b) ==
    \/ Len(a) < Len(b)
    \/ /\ Len(a) = Len(b)
       /\ \/ a = b
          \/ \E i \in 1..Len(a) :
                 /\ SubSeq(a, 1, i - 1) = SubSeq(b, 1, i - 1)
                 /\ IndexIn(Digits, a[i]) < IndexIn(Digits, b[i])

\* i64::MAX and the magnitude of i64::MIN
I64MaxDigits == W("9223372036854775807")
I64MinDigits == W("9223372036854775808")

\* str::parse::<i64>: an optional sign and one or more ASCII digits, in the
\* range of i64; the value is its decimal text without sign "+" or leading zeros
parse_i64(s) ==
    IF s = <<>> THEN ParseErr
    ELSE LET negative == s[1] = "-"
             digits == IF s[1] \in {"+", "-"} THEN Tail(s) ELSE s
             magnitude == strip_leading_zeros(digits)
         IN  IF digits = <<>> THEN ParseErr
             ELSE IF \E i \in 1..Len(digits) : ~is_ascii_digit(digits[i]) THEN ParseErr
             ELSE IF ~DigitsLeq(magnitude, IF negative THEN I64MinDigits ELSE I64MaxDigits)
                  THEN ParseErr
             ELSE IF magnitude = <<>> THEN ParseOk(W("0"))
             ELSE ParseOk((IF negative THEN <<"-">> ELSE <<>>) \o magnitude)

RECURSIVE digits_to_nat(_)
digits_to_nat(d) ==
    IF d = <<>> THEN 0
    ELSE 10 * digits_to_nat(SubSeq(d, 1, Len(d) - 1)) + (IndexIn(Digits, d[Len(d)]) - 1)

\* the exponent of a float literal, saturated far outside the range of f64
exponent_value(sign, digits) ==
    LET d == strip_leading_zeros(digits)
        n == IF Len(d) > 4 THEN 9999 ELSE digits_to_nat(d)
    IN  IF sign = "-" THEN 0 - n ELSE n

\* the greatest finite f64 is 1.7976931348623157e308
F64MaxMantissa == W("17976931348623157")

\* mantissa * 10^exp10 as an f64: the decimal in normal form (no leading or
\* trailing zero in the mantissa), infinite above f64::MAX, zero below the
\* least subnormal
f64_from_decimal(negative, all_digits, exp10) ==
    LET lead == strip_leading_zeros(all_digits)
        mantissa == strip_trailing_zeros(lead)
        e == exp10 + (Len(lead) - Len(mantissa))
        top == e + Len(mantissa) - 1
        \* the first 17 digits of m, zeros added to a shorter one
        First17(m) == [i \in 1..17 |-> IF i <= Len(m) THEN m[i] ELSE "0"]
    IN  IF mantissa = <<>> THEN Float("finite", negative, <<>>, 0)
        ELSE IF top > 308 THEN Float("inf", negative, <<>>, 0)
        ELSE IF top = 308 /\ ~DigitsLeq(First17(mantissa), F64MaxMantissa)
             THEN Float("inf", negative, <<>>, 0)
        ELSE IF top < 0 - 324 THEN Float("finite", negative, <<>>, 0)
        ELSE Float("finite", negative, mantissa, e)

\* the index of the first character of s in set, or 0
first_index_of(s, set) ==
    IF \E i \in 1..Len(s) : s[i] \in set
    THEN CHOOSE i \in 1..Len(s) : s[i] \in set /\ \A j \in 1..(i - 1) : s[j] \notin set
    ELSE 0

\* the Number of the grammar of f64::from_str:
\* (Digit+ | Digit+ '.' Digit* | Digit* '.' Digit+) ('e' Sign? Digit+)?
parse_f64_number(negative, s) ==
    LET e_at == first_index_of(s, {"e", "E"})
        decimal == IF e_at = 0 THEN s ELSE SubSeq(s, 1, e_at - 1)
        exp_part == IF e_at = 0 THEN <<>> ELSE SubSeq(s, e_at + 1, Len(s))
        exp_sign == IF exp_part # <<>> /\ exp_part[1] \in {"+", "-"} THEN exp_part[1] ELSE "+"
        exp_digits == IF exp_part # <<>> /\ exp_part[1] \in {"+", "-"}
                      THEN Tail(exp_part) ELSE exp_part
        dot_at == first_index_of(decimal, {"."})
        int_digits == IF dot_at = 0 THEN decimal ELSE SubSeq(decimal, 1, dot_at - 1)
        frac_digits == IF dot_at = 0 THEN <<>> ELSE SubSeq(decimal, dot_at + 1, Len(decimal))
        AllDigits(d) == \A i \in 1..Len(d) : is_ascii_digit(d[i])
    IN  IF ~AllDigits(int_digits) \/ ~AllDigits(frac_digits) THEN ParseErr
        ELSE IF int_digits = <<>> /\ frac_digits = <<>> THEN ParseErr
        ELSE IF e_at # 0 /\ (exp_digits = <<>> \/ ~AllDigits(exp_digits)) THEN ParseErr
        ELSE ParseOk(f64_from_decimal(negative, int_digits \o frac_digits,
                                      exponent_value(exp_sign, exp_digits) - Len(frac_digits)))

\* str::parse::<f64>: Sign? ('inf' | 'infinity' | 'nan' | Number), letters in
\* either case
parse_f64(s) ==
    IF s = <<>> THEN ParseErr
    ELSE LET negative == s[1] = "-"
             rest == IF s[1] \in {"+", "-"} THEN Tail(s) ELSE s
             folded == [i \in 1..Len(rest) |->
                           IF rest[i] \in Range(AsciiUpper)
                           THEN AsciiLower[IndexIn(AsciiUpper, rest[i])] ELSE rest[i]]
         IN  IF folded \in {W("inf"), W("infinity")}
             THEN ParseOk(Float("inf", negative, <<>>, 0))
             ELSE IF folded = W("nan") THEN ParseOk(Float("nan", negative, <<>>, 0))
             ELSE parse_f64_number(negative, rest)

\* parse_config_value with the float test before the integer test
parse_config_value_float_first(value) ==
    IF str_to_lowercase(value) = W("true") THEN Boolean(TRUE)
    ELSE IF str_to_lowercase(value) = W("false") THEN Boolean(FALSE)
    ELSE IF ~parse_f64(value).err THEN parse_f64(value).value
    ELSE IF ~parse_i64(value).err THEN Integer(parse_i64(value).value)
    ELSE String(value)

parse_config_value(value) ==
    IF str_to_lowercase(value) = W("true") THEN Boolean(TRUE)
    ELSE IF str_to_lowercase(value) = W("false") THEN Boolean(FALSE)
    ELSE IF ~parse_i64(value).err THEN Integer(parse_i64(value).value)
    ELSE IF ~parse_f64(value).err THEN parse_f64(value).value
    ELSE String(value)

-----------------------------------------------------------------------------
(* commands/config.rs: get_nested_value and set_nested_value                *)

\* Option<&Value>
Some(v) == [some |-> TRUE, value |-> v]
None == [some |-> FALSE, value |-> <<>>]

\* toml::map::Map::new()
EmptyMap == <<>>

\* Map::insert that drops the other entries of the table
table_insert_alone(entries, key, value) == [k \in {key} |-> value]

\* Map::insert: the entry is added, or replaced when the key is present
table_insert(entries, key, value) ==
    [k \in DOMAIN entries \cup {key} |-> IF k = key THEN value ELSE entries[k]]

RECURSIVE get_nested_at(_, _)
\* the loop of get_nested_value over the parts that are left
get_nested_at(current, parts) ==
    IF parts = <<>> THEN Some(current)
    ELSE IF current.kind = "Table"
         THEN IF Head(parts) \in DOMAIN current.entries
              THEN get_nested_at(current.entries[Head(parts)], Tail(parts))
              ELSE None
    ELSE None

get_nested_value(config, key) == get_nested_at(config, split(key, "."))

\* Result<()> of set_nested_value, with the configuration as the call left it
SetOk(config) == [err |-> FALSE, config |-> config]
SetErr(config) == [err |-> TRUE, config |-> config]

RECURSIVE set_nested_overwrite_at(_, _, _)
\* set_nested_value that replaces a value in its way by a table
set_nested_overwrite_at(current, parts, value) ==
    LET entries == IF current.kind = "Table" THEN current.entries ELSE EmptyMap
    IN  IF Len(parts) = 1 THEN SetOk(Table(table_insert(entries, parts[1], value)))
        ELSE LET entry == IF parts[1] \in DOMAIN entries
                          THEN entries[parts[1]] ELSE Table(EmptyMap)
                 below == set_nested_overwrite_at(entry, Tail(parts), value)
             IN  SetOk(Table(table_insert(entries, parts[1], below.config)))

RECURSIVE set_nested_at(_, _, _)
\* set_nested_value from `current` on: the navigation loop while more than
\* one part is left (entry(..).or_insert(empty table) changes the table in
\* place, whatever happens further down), then the final insert
set_nested_at(current, parts, value) ==
    IF Len(parts) = 1
    THEN IF current.kind = "Table"
         THEN SetOk(Table(table_insert(current.entries, parts[1], value)))
         ELSE SetErr(current)
    ELSE IF current.kind = "Table"
         THEN LET entry == IF parts[1] \in DOMAIN current.entries
                           THEN current.entries[parts[1]] ELSE Table(EmptyMap)
                  below == set_nested_at(entry, Tail(parts), value)
                  here == Table(table_insert(current.entries, parts[1], below.config))
              IN  IF below.err THEN SetErr(here) ELSE SetOk(here)
    ELSE SetErr(current)

set_nested_value_overwrite(config, key, value) ==
    set_nested_overwrite_at(config, split(key, "."), value)

set_nested_value(config, key, value) == set_nested_at(config, split(key, "."), value)

\* the part of create_default_config the commands below read and write
create_default_config ==
    Table([k \in {W("app"), W("server")} |->
        IF k = W("app")
        THEN Table([n \in {W("name"), W("debug"), W("key")} |->
                 IF n = W("name") THEN String(W("Rustisan App"))
                 ELSE IF n = W("debug") THEN Boolean(TRUE)
                 ELSE String(<<>>)])
        ELSE Table([n \in {W("port")} |-> Integer(W("3001"))])])

-----------------------------------------------------------------------------
(* commands/config.rs: is_sensitive_key                                     *)

sensitive_keys ==
    <<W("app.key"), W("database.connections.default.password"),
      W("cache.redis.password"), W("jwt_secret"), W("mail_password"),
      W("aws_secret_access_key"), W("sentry_dsn"), W("api_key"), W("secret"),
      W("token"), W("private_key")>>

\* str::starts_with
str_starts_with(s, pat) == Len(pat) <= Len(s) /\ SubSeq(s, 1, Len(pat)) = pat

\* str::contains(&str)
str_contains(s, pat) ==
    \E i \in 0..(Len(s) - Len(pat)) : SubSeq(s, i + 1, i + Len(pat)) = pat

is_sensitive_key(key) ==
    LET key_lower == str_to_lowercase(key)
    IN  \E k \in 1..Len(sensitive_keys) :
            \/ str_contains(key_lower, replace(sensitive_keys[k], "_", "."))
            \/ str_contains(key_lower, sensitive_keys[k])

-----------------------------------------------------------------------------
(* commands/config.rs: the commands on rustisan.toml.  The file is held as  *)
(* the table its text parses to.                                            *)

NoFile == [exists |-> FALSE, config |-> Table(EmptyMap)]
File(config) == [exists |-> TRUE, config |-> config]

\* what a command left behind: its Result, the value parsed from the command
\* line, the local `config` when it returned, the value it found
Outcome(name, key, ok, value, config, found) ==
    [name |-> name, key |-> key, ok |-> ok, value |-> value,
     config |-> config, found |-> found]

NoCommand == Outcome("none", <<>>, TRUE, None, None, None)

\* no configuration command is run
ConfigUnused == rustisan_toml = NoFile /\ last_command = NoCommand

\* no engine operation is called
EngineUnused == input = <<>> /\ calls = <<>> /\ outputs = <<>>

\* CommandUtils::is_rustisan_project, Cargo.toml taken to be there
is_rustisan_project == rustisan_toml.exists

set_config_value(name, key, value) ==
    IF ~is_rustisan_project
    THEN /\ last_command' = Outcome(name, key, FALSE, None, None, None)
         /\ UNCHANGED rustisan_toml
    ELSE LET config == rustisan_toml.config
             parsed_value == parse_config_value(value)
             set == set_nested_value(config, key, parsed_value)
         IN  IF set.err
             THEN /\ last_command' =
                         Outcome(name, key, FALSE, Some(parsed_value), Some(set.config), None)
                  /\ UNCHANGED rustisan_toml
             ELSE /\ rustisan_toml' = File(set.config)
                  /\ last_command' =
                         Outcome(name, key, TRUE, Some(parsed_value), Some(set.config), None)

get_config_value(key) ==
    /\ IF ~is_rustisan_project
       THEN last_command' = Outcome("config:get", key, FALSE, None, None, None)
       ELSE LET config == rustisan_toml.config
            IN  last_command' = Outcome("config:get", key, TRUE, None, Some(config),
                                        get_nested_value(config, key))
    /\ UNCHANGED rustisan_toml

-----------------------------------------------------------------------------
(* commands/queue.rs: work_queue.  The worker is at the sleep that opens an  *)
(* iteration, at get_next_job, at process_job, or it has left the loop and  *)
(* returned Ok.  What follows process_job in an iteration (the counter,     *)
(* mark_job_as_failed, both limit checks) runs without an await, as one     *)
(* step.                                                                    *)

\* Option<u32>::None of --max-jobs and --memory (Some(n) is the limit n)
NoLimit == [some |-> FALSE, value |-> 0]

\* get_memory_usage: a constant, in MB
get_memory_usage == 64

\* the limit test that also stops at the limit itself
memory_limit_reached(memory_usage, mem_limit) == memory_usage >= mem_limit

\* the test of the memory check
memory_limit_exceeded(memory_usage, mem_limit) == memory_usage > mem_limit

\* the limit test that needs one job more than the limit
max_jobs_exceeded(processed, max) == processed > max

\* the test of the max-jobs check
max_jobs_reached(processed, max) == processed >= max

\* a counter that counts every handled job, failed ones too
processed_after_any(processed, completed) == processed + 1

\* processed_jobs after the match on process_job's result
processed_after(processed, completed) ==
    IF completed THEN processed + 1 ELSE processed

\* the end of an iteration without the max-jobs check
after_job_memory_only(processed) ==
    IF memory.some /\ memory_limit_exceeded(get_memory_usage, memory.value)
    THEN [worker |-> "returned", stopped_by |-> "memory"]
    ELSE [worker |-> "sleep", stopped_by |-> "none"]

\* the two checks that close an iteration that handled a job: where the
\* worker goes, and which check made it break
after_job(processed) ==
    IF memory.some /\ memory_limit_exceeded(get_memory_usage, memory.value)
    THEN [worker |-> "returned", stopped_by |-> "memory"]
    ELSE IF max_jobs.some /\ max_jobs_reached(processed, max_jobs.value)
    THEN [worker |-> "returned", stopped_by |-> "max_jobs"]
    ELSE [worker |-> "sleep", stopped_by |-> "none"]

\* no worker is started
QueueUnused ==
    /\ max_jobs = NoLimit /\ memory = NoLimit
    /\ processed_jobs = 0 /\ failed_jobs = 0
    /\ job = "none" /\ worker = "returned" /\ stopped_by = "none"

-----------------------------------------------------------------------------
(* commands/serve.rs: start_normal_server and start_with_hot_reload.  Both  *)
(* spawn the server as a child, put the Child in an Arc<Mutex<..>>, and     *)
(* select! between ctrl_c() and a spawn_blocking closure that locks the     *)
(* mutex and waits for the child.  std::sync::Mutex::lock blocks the        *)
(* calling thread until the holder drops its guard.                         *)

\* no serve command is run
ServeUnused ==
    /\ reload = FALSE /\ serve = "returned" /\ serve_result = "none"
    /\ ctrl_c = FALSE /\ child = "none" /\ exit_status = "none"
    /\ child_mutex = "free" /\ blocking_task = "none"

\* the command returns
serve_returns(result) == serve' = "returned" /\ serve_result' = result

\* the steps taken by the command's own threads once the child is spawned
\* are defined with the actions below; this is what the child looks like to
\* wait(): it has exited, reaped or not
child_has_exited == child \in {"exited", "reaped"}

-----------------------------------------------------------------------------
(* The callers: one call on the supplied name, or a call on the result of   *)
(* the call before it where the engine's properties compose two calls.     *)

\* every string of at most n characters over the alphabet
Strings(alphabet, n) == UNION {[1..k -> alphabet] : k \in 0..n}

\* identifiers for the case conversions: a lower-case letter, an upper-case
\* letter, both separators, a digit, and non-ASCII letters of both cases
CaseAlphabet == {"a", "U", "_", "-", "1", E_ACUTE, KELVIN, MATH_BOLD_A}

CaseLiterals ==
    {W("HelloWorld"), W("hello"), W("HTTPSConnection"), W("hello_world"),
     W("user_profile_image"), W("UserProfile"), W("user-name"), W("User_Name"),
     W("_private"), W("User123"), W("123user"), W("user_name"),
     <<E_ACUTE, "t", "a", "t">>}

Identifiers == Strings(CaseAlphabet, MaxLen) \cup CaseLiterals

\* word endings for pluralize / singularize
WordAlphabet ==
    {"a", "e", "i", "s", "h", "c", "x", "z", "y", "f", "v", "l", "S", E_ACUTE}

Stems == {<<>>, W("l"), W("ol"), <<E_ACUTE>>}

WordLiterals ==
    {W("cat"), W("box"), W("city"), W("leaf"), W("day"), W("knife"), W("church"),
     W("buzz"), W("Bus"), W("CITY"),
     W("cats"), W("boxes"), W("cities"), W("leaves"), W("wolves"), W("knives"),
     W("churches"), W("dishes"), W("buzzes"), W("horses"), W("CITIES"),
     <<I_DOT, "s">>, <<KELVIN, "s", "h">>, <<KELVIN, KELVIN, "s">>}

Words ==
    {stem \o ending : stem \in Stems, ending \in Strings(WordAlphabet, MaxWordLen)}
        \cup WordLiterals

\* the pairs of calls the callers compose: the second on the first's result
Pipelines ==
    {<<"to_snake_case", "to_snake_case">>, <<"to_snake_case", "to_pascal_case">>,
     <<"pluralize", "singularize">>,
     <<"generators::pluralize", "generators::singularize">>}

\* the argument of the next call
Arg == IF calls = <<>> THEN input ELSE outputs[Len(outputs)].value

CanCall(op) ==
    \/ calls = <<>>
    \/ /\ Len(calls) = 1
       /\ <<calls[1], op>> \in Pipelines
       /\ ~outputs[1].panicked

Call(op, result) ==
    /\ CanCall(op)
    /\ calls' = Append(calls, op)
    /\ outputs' = Append(outputs, result)
    /\ UNCHANGED <<input, config_vars, queue_vars, serve_vars>>

CallToSnakeCase == Call("to_snake_case", Ok(to_snake_case(Arg)))
CallToPascalCase == Call("to_pascal_case", Ok(to_pascal_case(Arg)))
CallToCamelCase == Call("to_camel_case", Ok(to_camel_case(Arg)))
CallToKebabCase == Call("to_kebab_case", Ok(to_kebab_case(Arg)))
CallGenToCamelCase == Call("generators::to_camel_case", gen_to_camel_case(Arg))
CallToTitleCase == Call("generators::to_title_case", Ok(to_title_case(Arg)))

CallIsValidIdentifier == Call("is_valid_identifier", Ok(is_valid_identifier(Arg)))
CallNameVariations == Call("name_variations", name_variations(Arg))

CallPluralize == Call("pluralize", pluralize(Arg))
CallSingularize == Call("singularize", singularize(Arg))
CallGenPluralize == Call("generators::pluralize", gen_pluralize(Arg))
CallGenSingularize == Call("generators::singularize", gen_singularize(Arg))
CallMakePluralize == Call("make::pluralize", make_pluralize(Arg))

CallParseConfigValue == Call("parse_config_value", Ok(parse_config_value(Arg)))
CallIsSensitiveKey == Call("is_sensitive_key", Ok(is_sensitive_key(Arg)))

InitCase == input \in Identifiers /\ calls = <<>> /\ outputs = <<>> /\ ConfigUnused /\ QueueUnused /\ ServeUnused

NextCase ==
    \/ CallToSnakeCase
    \/ CallToPascalCase
    \/ CallToCamelCase
    \/ CallToKebabCase
    \/ CallGenToCamelCase
    \/ CallToTitleCase
    \/ CallPluralize
    \/ CallIsValidIdentifier
    \/ CallNameVariations

SpecCase == InitCase /\ [][NextCase]_vars

InitWords == input \in Words /\ calls = <<>> /\ outputs = <<>> /\ ConfigUnused /\ QueueUnused /\ ServeUnused

NextWords ==
    \/ CallPluralize
    \/ CallSingularize
    \/ CallGenPluralize
    \/ CallGenSingularize
    \/ CallMakePluralize

SpecWords == InitWords /\ [][NextWords]_vars

-----------------------------------------------------------------------------
(* The texts given to config:set and the keys shown by config:show.         *)

\* longest value text enumerated for parse_config_value
MaxValueLen == 4

\* most characters enumerated around a fragment of a configuration key
MaxKeyPad == 1

\* digits, both signs, the point, the exponent mark and a letter
ValueAlphabet == {"0", "1", "-", "+", ".", "e", "x"}

ValueLiterals ==
    {W("true"), W("false"), W("TRUE"), W("True"), W("fAlSe"), W("truee"), W("tru"),
     W("42"), W("3.14"), W("hello"), W("+5"), W("007"), W("-0"), W(" 42"), W("42 "),
     W("1_000"), W("0x10"), W("1E5"), W("9e308"), W("1e-400"),
     W("inf"), W("-inf"), W("Infinity"), W("NaN"), W("nan"), W("infinit"),
     W("9223372036854775807"), W("9223372036854775808"),
     W("-9223372036854775808"), W("-9223372036854775809"),
     <<KELVIN>>, <<"1", E_ACUTE>>}

ValueTexts == Strings(ValueAlphabet, MaxValueLen) \cup ValueLiterals

KeyAlphabet == {"a", ".", "_", "K"}

\* the listed fragments, their dotted and upper-case forms, and near misses
KeyMiddles ==
    Range(sensitive_keys) \cup
    {W("jwt.secret"), W("mail.password"), W("aws.secret.access.key"),
     W("sentry.dsn"), W("api.key"), W("private.key"),
     W("APP.KEY"), W("Api_Key"), W("API.KEY"), W("SECRET"), W("Token"), W("Sentry.DSN"),
     <<"t", "o", KELVIN, "e", "n">>,
     W("app_key"), W("app-key"), W("api-key"), W("apikey"), W("sentry-dsn"),
     W("sentry_dns"), W("mail-password"), W("password"), W("redis.password"),
     W("privatekey"), W("private_ke"), W("secre"), W("ecret"), W("toke"),
     W("tok.en"), W("sec_ret"), W("key"), <<>>}

KeyLiterals ==
    {W("app.name"), W("database.connections.default.host"), W("logging.level"),
     W("database.connections.default.password"), W("cache.redis.password"),
     W("app.key"), W("database.connections.mysql.password"),
     W("services.github.client_secret"), W("session.csrf_token")}

ConfigKeys ==
    {pre \o mid \o post : pre \in Strings(KeyAlphabet, MaxKeyPad),
                          mid \in KeyMiddles,
                          post \in Strings(KeyAlphabet, MaxKeyPad)}
        \cup KeyLiterals

InitConfigText ==
    input \in ValueTexts \cup ConfigKeys /\ calls = <<>> /\ outputs = <<>> /\ ConfigUnused /\ QueueUnused /\ ServeUnused

NextConfigText ==
    \/ CallParseConfigValue
    \/ CallIsSensitiveKey

SpecConfigText == InitConfigText /\ [][NextConfigText]_vars

-----------------------------------------------------------------------------
(* The configuration commands run from the command line.                    *)

\* dotted keys of one to three parts, one with an empty last part
SetKeys ==
    {W("app"), W("app.name"), W("app.name.first"), W("app."),
     W("server.port"), W("mail.smtp.host")}

GetKeys == SetKeys \cup {W("server"), W("mail"), W("mail.smtp"), W("app.key"),
                         W("app.debug"), W("logging.level")}

\* an integer and a string
SetValues == {W("8080"), W("local")}

\* the key generate_app_key writes: "base64:" and the encoded random bytes
GeneratedKey == W("base64:AAAA")

SetConfigValue ==
    /\ \E key \in SetKeys, value \in SetValues : set_config_value("config:set", key, value)
    /\ UNCHANGED <<engine_vars, queue_vars, serve_vars>>

GetConfigValue ==
    /\ \E key \in GetKeys : get_config_value(key)
    /\ UNCHANGED <<engine_vars, queue_vars, serve_vars>>

GenerateAppKey ==
    /\ set_config_value("config:generate-key", W("app.key"), GeneratedKey)
    /\ UNCHANGED <<engine_vars, queue_vars, serve_vars>>

ResetConfig ==
    /\ IF ~is_rustisan_project
       THEN /\ last_command' = Outcome("config:reset", <<>>, FALSE, None, None, None)
            /\ UNCHANGED rustisan_toml
       ELSE /\ rustisan_toml' = File(create_default_config)
            /\ last_command' = Outcome("config:reset", <<>>, TRUE, None, None, None)
    /\ UNCHANGED <<engine_vars, queue_vars, serve_vars>>

InitConfig ==
    /\ EngineUnused /\ QueueUnused /\ ServeUnused
    /\ rustisan_toml \in {NoFile, File(Table(EmptyMap)), File(create_default_config)}
    /\ last_command = NoCommand

NextConfig ==
    \/ SetConfigValue
    \/ GetConfigValue
    \/ GenerateAppKey
    \/ ResetConfig

SpecConfig == InitConfig /\ [][NextConfig]_vars

-----------------------------------------------------------------------------
(* The queue worker: one action per step of its loop.                       *)

\* the largest --max-jobs enumerated
MaxJobsArg == 3

\* jobs completed by one worker
MaxProcessed == 3

\* jobs handed to mark_job_as_failed
MaxFailedJobs == 2

\* --memory in MB: below, just below, at and above what get_memory_usage returns
MemoryArgs == {32, get_memory_usage - 1, get_memory_usage, 128}

\* tokio::time::sleep at the top of the loop
Sleep ==
    /\ worker = "sleep"
    /\ worker' = "get_next_job"
    /\ UNCHANGED <<max_jobs, memory, processed_jobs, failed_jobs, job, stopped_by>>
    /\ UNCHANGED <<engine_vars, config_vars, serve_vars>>

\* get_next_job returned Some(job)
JobAvailable ==
    /\ worker = "get_next_job"
    /\ job' = "processing"
    /\ worker' = "process_job"
    /\ UNCHANGED <<max_jobs, memory, processed_jobs, failed_jobs, stopped_by>>
    /\ UNCHANGED <<engine_vars, config_vars, serve_vars>>

\* get_next_job returned None: a dot is printed and the loop starts over
NoJobAvailable ==
    /\ worker = "get_next_job"
    /\ job' = "none"
    /\ worker' = "sleep"
    /\ UNCHANGED <<max_jobs, memory, processed_jobs, failed_jobs, stopped_by>>
    /\ UNCHANGED <<engine_vars, config_vars, serve_vars>>

\* process_job returned Ok
JobCompleted ==
    /\ worker = "process_job"
    /\ processed_jobs < MaxProcessed
    /\ processed_jobs' = processed_after(processed_jobs, TRUE)
    /\ job' = "completed"
    /\ worker' = after_job(processed_jobs').worker
    /\ stopped_by' = after_job(processed_jobs').stopped_by
    /\ UNCHANGED <<max_jobs, memory, failed_jobs>>
    /\ UNCHANGED <<engine_vars, config_vars, serve_vars>>

\* process_job returned Err: the job goes to mark_job_as_failed
JobFailed ==
    /\ worker = "process_job"
    /\ failed_jobs < MaxFailedJobs
    /\ processed_jobs' = processed_after(processed_jobs, FALSE)
    /\ failed_jobs' = failed_jobs + 1
    /\ job' = "failed"
    /\ worker' = after_job(processed_jobs').worker
    /\ stopped_by' = after_job(processed_jobs').stopped_by
    /\ UNCHANGED <<max_jobs, memory>>
    /\ UNCHANGED <<engine_vars, config_vars, serve_vars>>

InitQueue ==
    /\ EngineUnused /\ ConfigUnused /\ ServeUnused
    /\ max_jobs \in {NoLimit} \cup {Some(n) : n \in 0..MaxJobsArg}
    /\ memory \in {NoLimit} \cup {Some(m) : m \in MemoryArgs}
    /\ processed_jobs = 0 /\ failed_jobs = 0
    /\ job = "none" /\ worker = "sleep" /\ stopped_by = "none"

NextQueue ==
    \/ Sleep
    \/ JobAvailable
    \/ NoJobAvailable
    \/ JobCompleted
    \/ JobFailed

SpecQueue == InitQueue /\ [][NextQueue]_vars

\* the worker keeps running, jobs keep becoming available, and processing
\* succeeds again and again
SpecQueueFair ==
    /\ SpecQueue
    /\ WF_vars(NextQueue)
    /\ SF_vars(JobAvailable)
    /\ SF_vars(JobCompleted)

-----------------------------------------------------------------------------
(* The serve command, its blocking task, the child process and the signal.  *)

\* start_normal_server: cargo build, which succeeds or fails
Build ==
    /\ serve = "build"
    /\ \E success \in BOOLEAN :
           IF success
           THEN serve' = "spawn" /\ UNCHANGED serve_result
           ELSE serve_returns("Err")
    /\ UNCHANGED <<reload, ctrl_c, child, exit_status, child_mutex, blocking_task>>
    /\ UNCHANGED <<engine_vars, config_vars, queue_vars>>

\* start_with_hot_reload: cargo-watch is there, or is installed, or cannot be
EnsureCargoWatch ==
    /\ serve = "cargo_watch"
    /\ \E installed \in BOOLEAN, install_ok \in BOOLEAN :
           IF installed \/ install_ok
           THEN serve' = "spawn" /\ UNCHANGED serve_result
           ELSE serve_returns("Err")
    /\ UNCHANGED <<reload, ctrl_c, child, exit_status, child_mutex, blocking_task>>
    /\ UNCHANGED <<engine_vars, config_vars, queue_vars>>

\* Command::spawn, then Arc::new(Mutex::new(child)), ctrl_c() and the entry
\* of select!, which evaluates spawn_blocking(..): the closure is queued
SpawnChild ==
    /\ serve = "spawn"
    /\ \E spawned \in BOOLEAN :
           IF spawned
           THEN /\ child' = "running"
                /\ blocking_task' = "lock"
                /\ serve' = "select"
                /\ UNCHANGED serve_result
           ELSE /\ serve_returns("Err")
                /\ UNCHANGED <<child, blocking_task>>
    /\ UNCHANGED <<reload, ctrl_c, exit_status, child_mutex>>
    /\ UNCHANGED <<engine_vars, config_vars, queue_vars>>

\* SIGINT reaches the command before ctrl_c() has installed the listener:
\* the default action of the signal ends the process
Interrupted ==
    /\ serve \in {"build", "cargo_watch", "spawn"}
    /\ serve' = "exited"
    /\ UNCHANGED <<reload, serve_result, ctrl_c, child, exit_status, child_mutex,
                   blocking_task>>
    /\ UNCHANGED <<engine_vars, config_vars, queue_vars>>

\* SIGINT reaches the command while it waits in select!
CtrlC ==
    /\ serve = "select"
    /\ ~ctrl_c
    /\ ctrl_c' = TRUE
    /\ UNCHANGED <<reload, serve, serve_result, child, exit_status, child_mutex,
                   blocking_task>>
    /\ UNCHANGED <<engine_vars, config_vars, queue_vars>>

\* the child exits without being killed by the command: on its own, or on a
\* SIGINT the terminal sent to it as well
ChildExits ==
    /\ child = "running"
    /\ child' = "exited"
    /\ \E status \in {"success", "failure"} : exit_status' = status
    /\ UNCHANGED <<reload, serve, serve_result, ctrl_c, child_mutex, blocking_task>>
    /\ UNCHANGED <<engine_vars, config_vars, queue_vars>>

\* the closure: child_clone.lock()
BlockingLock ==
    /\ serve # "exited"
    /\ blocking_task = "lock"
    /\ child_mutex = "free"
    /\ child_mutex' = "blocking_task"
    /\ blocking_task' = "wait"
    /\ UNCHANGED <<reload, serve, serve_result, ctrl_c, child, exit_status>>
    /\ UNCHANGED <<engine_vars, config_vars, queue_vars>>

\* the closure: child.wait() returns once the child has exited; the guard is
\* dropped as the closure ends
BlockingWait ==
    /\ serve # "exited"
    /\ blocking_task = "wait"
    /\ child_has_exited
    /\ child' = "reaped"
    /\ child_mutex' = "free"
    /\ blocking_task' = "done"
    /\ UNCHANGED <<reload, serve, serve_result, ctrl_c, exit_status>>
    /\ UNCHANGED <<engine_vars, config_vars, queue_vars>>

\* select! takes the ctrl_c branch; the JoinHandle is dropped, the closure
\* keeps running
SelectCtrlC ==
    /\ serve = "select"
    /\ ctrl_c
    /\ serve' = "ctrl_c_lock"
    /\ UNCHANGED <<reload, serve_result, ctrl_c, child, exit_status, child_mutex,
                   blocking_task>>
    /\ UNCHANGED <<engine_vars, config_vars, queue_vars>>

\* select! takes the branch of the closure's result
SelectJoined ==
    /\ serve = "select"
    /\ blocking_task = "done"
    /\ serve_returns(IF exit_status = "success" THEN "Ok" ELSE "Err")
    /\ UNCHANGED <<reload, ctrl_c, child, exit_status, child_mutex, blocking_task>>
    /\ UNCHANGED <<engine_vars, config_vars, queue_vars>>

\* the ctrl_c branch: child_arc.lock()
CtrlCLock ==
    /\ serve = "ctrl_c_lock"
    /\ child_mutex = "free"
    /\ child_mutex' = "serve"
    /\ serve' = "ctrl_c_kill"
    /\ UNCHANGED <<reload, serve_result, ctrl_c, child, exit_status, blocking_task>>
    /\ UNCHANGED <<engine_vars, config_vars, queue_vars>>

\* the ctrl_c branch: child.kill(), whose result is dropped
CtrlCKill ==
    /\ serve = "ctrl_c_kill"
    /\ IF child = "running"
       THEN child' = "exited" /\ exit_status' = "killed"
       ELSE UNCHANGED <<child, exit_status>>
    /\ serve' = "ctrl_c_wait"
    /\ UNCHANGED <<reload, serve_result, ctrl_c, child_mutex, blocking_task>>
    /\ UNCHANGED <<engine_vars, config_vars, queue_vars>>

\* the ctrl_c branch: child.wait(), the guard dropped, and Ok(()) returned
CtrlCWait ==
    /\ serve = "ctrl_c_wait"
    /\ child_has_exited
    /\ child' = "reaped"
    /\ child_mutex' = "free"
    /\ serve_returns("Ok")
    /\ UNCHANGED <<reload, ctrl_c, exit_status, blocking_task>>
    /\ UNCHANGED <<engine_vars, config_vars, queue_vars>>

\* main after the command returned: process::exit(1) on Err; on Ok the
\* runtime is dropped, which waits for a closure that is inside child.wait()
Exit ==
    /\ serve = "returned"
    /\ serve_result = "Err" \/ blocking_task # "wait"
    /\ serve' = "exited"
    /\ UNCHANGED <<reload, serve_result, ctrl_c, child, exit_status, child_mutex,
                   blocking_task>>
    /\ UNCHANGED <<engine_vars, config_vars, queue_vars>>

InitServe ==
    /\ EngineUnused /\ ConfigUnused /\ QueueUnused
    /\ reload \in BOOLEAN
    /\ serve = IF reload THEN "cargo_watch" ELSE "build"
    /\ serve_result = "none"
    /\ ctrl_c = FALSE /\ child = "none" /\ exit_status = "none"
    /\ child_mutex = "free" /\ blocking_task = "none"

NextServe ==
    \/ Build
    \/ EnsureCargoWatch
    \/ SpawnChild
    \/ Interrupted
    \/ CtrlC
    \/ ChildExits
    \/ BlockingLock
    \/ BlockingWait
    \/ SelectCtrlC
    \/ SelectJoined
    \/ CtrlCLock
    \/ CtrlCKill
    \/ CtrlCWait
    \/ Exit

SpecServe == InitServe /\ [][NextServe]_vars

-----------------------------------------------------------------------------
(* Properties.  The expected results are stated over characters, with no   *)
(* byte offsets: DropLast and Suffix count characters.                     *)

\* the state right after one call of op on the supplied name
Called(op) == calls = <<op>>

\* the state after op2 was called on the result of op1
CalledBoth(op1, op2) == calls = <<op1, op2>>

DropLast(w, k) == SubSeq(w, 1, Len(w) - k)

\* the last k characters of w, or all of w when it is shorter
Suffix(w, k) == IF Len(w) <= k THEN w ELSE SubSeq(w, Len(w) - k + 1, Len(w))

IsAlphanumeric(c) == is_alphabetic(c) \/ c \in Range(W("0123456789"))

Vowels == Range(W("aeiou"))

\* C1: TextUtils::singularize("leaves") returns "leave"
C1_SingularizeLeaves ==
    (Called("singularize") /\ input = W("leaves")) => outputs[1] = Ok(W("leave"))

\* what singularize("leaves") returns: the "ves" rule appends "fe"
C1_LeavesGivesLeafe ==
    (Called("singularize") /\ input = W("leaves")) => outputs[1] = Ok(W("leafe"))

\* C2: every engine operation is total: no call panics, whatever the input
C2_NoPanic == \A k \in DOMAIN outputs : ~outputs[k].panicked

\* C3: to_snake_case turns a hyphen between two words into one "_" (so no
\* hyphen is left between two alphanumeric characters), and an underscore
\* followed by an upper-case letter gives one "_", never "__" (so the output
\* has a double underscore only where the input has one)
C3_SeparatorsAreBoundaries ==
    Called("to_snake_case") =>
        LET out == outputs[1].value
            HasDouble(s) == \E j \in 1..(Len(s) - 1) : s[j] = "_" /\ s[j + 1] = "_"
        IN  /\ \A j \in 2..(Len(out) - 1) :
                   out[j] = "-" => ~(IsAlphanumeric(out[j - 1]) /\ IsAlphanumeric(out[j + 1]))
            /\ HasDouble(out) => HasDouble(input)

\* the five rules of pluralize in the documented order
PluralRules(word) ==
    LET lower == str_to_lowercase(word)
    IN  IF Suffix(lower, 1) \in {W("s"), W("x"), W("z")} \/ Suffix(lower, 2) \in {W("sh"), W("ch")}
        THEN word \o W("es")
        ELSE IF /\ Suffix(lower, 1) = W("y")
                /\ ~(Len(lower) >= 2 /\ lower[Len(lower) - 1] \in Vowels)
        THEN DropLast(word, 1) \o W("ies")
        ELSE IF Len(lower) >= 2 /\ Suffix(lower, 2) = W("fe")
        THEN DropLast(word, 2) \o W("ves")
        ELSE IF Suffix(lower, 1) = W("f")
        THEN DropLast(word, 1) \o W("ves")
        ELSE word \o W("s")

\* C4: for every non-empty word pluralize returns the result of the first
\* matching rule, tested on the lower-cased word and applied to the word as
\* written: cat -> cats, box -> boxes, city -> cities, leaf -> leaves
C4_PluralizeRules ==
    (Called("pluralize") /\ input # <<>>) =>
        /\ outputs[1] = Ok(PluralRules(input))
        /\ input = W("cat") => outputs[1].value = W("cats")
        /\ input = W("box") => outputs[1].value = W("boxes")
        /\ input = W("city") => outputs[1].value = W("cities")
        /\ input = W("leaf") => outputs[1].value = W("leaves")

\* rule 2 on an upper-case word: the test sees "city", the edit keeps "CIT"
C4_Witness ==
    Called("pluralize") /\ input = W("CITY") /\ outputs[1] = Ok(W("CITies"))

\* the rules of singularize for a word that does not end in "ves"
SingularRules(word) ==
    LET lower == str_to_lowercase(word)
        n == Len(lower)
    IN  IF n >= 3 /\ Suffix(lower, 3) = W("ies") THEN DropLast(word, 3) \o W("y")
        ELSE IF /\ n >= 3 /\ Suffix(lower, 2) = W("es")
                /\ \/ SubSeq(lower, n - 2, n - 2) \in {W("s"), W("x"), W("z")}
                   \/ n >= 4 /\ SubSeq(lower, n - 3, n - 2) \in {W("sh"), W("ch")}
        THEN DropLast(word, 2)
        ELSE IF n > 1 /\ Suffix(lower, 1) = W("s") THEN DropLast(word, 1)
        ELSE word

\* C5: for every word that does not end in "ves" singularize returns the
\* result of the first matching rule (ies -> y; es after s, x, z, sh, ch
\* dropped; final s dropped; otherwise unchanged)
C5_SingularizeRules ==
    (Called("singularize") /\ ~ends_with(str_to_lowercase(input), W("ves"))) =>
        outputs[1] = Ok(SingularRules(input))

\* C6: for every word ending in "ves" singularize drops "ves" and appends
\* "fe", or "f" exactly when the word is longer than 4 characters and the
\* character before "ves" is "l"
C6_SingularizeVes ==
    LET lower == str_to_lowercase(input)
    IN  (Called("singularize") /\ ends_with(lower, W("ves"))) =>
            outputs[1] = Ok(DropLast(input, 3) \o
                            (IF Len(input) > 4 /\ lower[Len(lower) - 3] = "l"
                             THEN W("f") ELSE W("fe")))

\* the upper-case letters of s after its first character
UppersAfterFirst(s, upto) == {i \in 2..upto : is_uppercase(s[i])}

\* C7: to_snake_case puts one "_" before every upper-case letter that is not
\* first and lower-cases every character, acronyms included; the output is
\* as long as the input plus its upper-case letters after the first character
C7_SnakeEveryUppercase ==
    Called("to_snake_case") =>
        LET out == outputs[1].value
            At(i) == i + Cardinality(UppersAfterFirst(input, i))
        IN  /\ Len(out) = Len(input) + Cardinality(UppersAfterFirst(input, Len(input)))
            /\ \A i \in 1..Len(input) :
                   /\ out[At(i)] = Head(char_to_lowercase(input[i]))
                   /\ (i > 1 /\ is_uppercase(input[i])) => out[At(i) - 1] = "_"
            /\ input = W("HelloWorld") => out = W("hello_world")
            /\ input = W("HTTPSConnection") => out = W("h_t_t_p_s_connection")

C7_Witness ==
    /\ Called("to_snake_case") /\ input = W("HTTPSConnection")
    /\ outputs[1] = Ok(W("h_t_t_p_s_connection"))

\* C8: to_pascal_case splits on "_", upper-cases the first character of each
\* piece and nothing else, and concatenates: the output is the input without
\* its underscores, a character changed only where it starts a piece
C8_PascalPieces ==
    Called("to_pascal_case") =>
        LET out == outputs[1].value
            Kept(upto) == {i \in 1..upto : input[i] # "_"}
        IN  /\ "_" \notin Range(out)
            /\ Len(out) = Cardinality(Kept(Len(input)))
            /\ \A i \in Kept(Len(input)) :
                   out[Cardinality(Kept(i))] =
                       IF i = 1 \/ input[i - 1] = "_"
                       THEN Head(char_to_uppercase(input[i]))
                       ELSE input[i]
            /\ Range(input) \subseteq {"_"} => out = <<>>

\* a piece whose later upper-case letter is kept, and only underscores
C8_Witness ==
    /\ Called("to_pascal_case") /\ input = <<"a", "U", "_", "a">>
    /\ outputs[1] = Ok(W("AUA"))

\* C9: to_snake_case is idempotent
C9_SnakeIdempotent ==
    CalledBoth("to_snake_case", "to_snake_case") => outputs[2] = outputs[1]

\* x is a PascalCase identifier: letters and digits, the first an upper-case letter
IsPascalIdentifier(x) ==
    /\ x # <<>>
    /\ is_uppercase(x[1]) /\ is_alphabetic(x[1])
    /\ \A i \in 1..Len(x) : IsAlphanumeric(x[i])

\* C10 as stated: to_pascal_case(to_snake_case(x)) = x for every PascalCase identifier
C10_RoundTripEveryLetter ==
    (CalledBoth("to_snake_case", "to_pascal_case") /\ IsPascalIdentifier(input)) =>
        outputs[2].value = input

\* lower-casing changes c only if c is an upper-case letter, and then
\* upper-casing the lower-case form gives c back
CaseRoundTrips(c) ==
    IF is_uppercase(c)
    THEN char_to_uppercase(Head(char_to_lowercase(c))) = <<c>>
    ELSE char_to_lowercase(c) = <<c>>

\* C10: to_pascal_case(to_snake_case(x)) = x for every PascalCase identifier
\* in which lower-casing changes only upper-case letters and upper-casing
\* the lower-case form of each of them gives it back, as in every ASCII
\* identifier; in particular for "UserProfile"
C10_RoundTrip ==
    (/\ CalledBoth("to_snake_case", "to_pascal_case")
     /\ IsPascalIdentifier(input)
     /\ \A i \in 1..Len(input) : CaseRoundTrips(input[i])) =>
        outputs[2].value = input

C10_Witness ==
    /\ CalledBoth("to_snake_case", "to_pascal_case") /\ input = W("UserProfile")
    /\ outputs[1] = Ok(W("user_profile")) /\ outputs[2] = Ok(W("UserProfile"))

\* the four supported cases of an identifier of letters and digits
IsSnakeCase(x) ==
    /\ x # <<>>
    /\ \A i \in 1..Len(x) : (IsAlphanumeric(x[i]) /\ ~is_uppercase(x[i])) \/ x[i] = "_"

IsKebabCase(x) ==
    /\ x # <<>>
    /\ \A i \in 1..Len(x) : (IsAlphanumeric(x[i]) /\ ~is_uppercase(x[i])) \/ x[i] = "-"

IsCamelCase(x) ==
    /\ x # <<>>
    /\ is_alphabetic(x[1]) /\ ~is_uppercase(x[1])
    /\ \A i \in 1..Len(x) : IsAlphanumeric(x[i])

InSupportedCase(x) ==
    IsSnakeCase(x) \/ IsPascalIdentifier(x) \/ IsCamelCase(x) \/ IsKebabCase(x)

\* C11 as stated: for every input in one of the supported cases, PascalCase
\* by way of snake_case is the PascalCase of the input itself
C11_ViaSnakeEveryLetter ==
    (CalledBoth("to_snake_case", "to_pascal_case") /\ InSupportedCase(input)) =>
        outputs[2].value = to_pascal_case(input)

\* C11: the same for every input in a supported case in which lower-casing
\* changes only upper-case letters and upper-casing the lower-case form of
\* each of them gives it back, as in every ASCII identifier
C11_ViaSnake ==
    (/\ CalledBoth("to_snake_case", "to_pascal_case")
     /\ InSupportedCase(input)
     /\ \A i \in 1..Len(input) : CaseRoundTrips(input[i])) =>
        outputs[2].value = to_pascal_case(input)

\* a camelCase name: the boundary before "U" survives the way through snake_case
C11_Witness ==
    /\ CalledBoth("to_snake_case", "to_pascal_case") /\ input = <<"a", "U", "a">>
    /\ outputs[1] = Ok(W("a_ua")) /\ outputs[2] = Ok(W("AUa"))

\* a word that rule 1 of pluralize matches
MatchesRule1(word) ==
    LET lower == str_to_lowercase(word)
    IN  Suffix(lower, 1) \in {W("s"), W("x"), W("z")} \/ Suffix(lower, 2) \in {W("sh"), W("ch")}

\* C12: for every word w that rule 1 of pluralize matches,
\* singularize(pluralize(w)) = w, in TextUtils and in the generators
C12_Rule1RoundTrip ==
    (/\ \/ CalledBoth("pluralize", "singularize")
        \/ CalledBoth("generators::pluralize", "generators::singularize")
     /\ MatchesRule1(input)) =>
        outputs[2] = Ok(input)

\* C13: to_camel_case(x) is to_pascal_case(x) with its first character
\* lower-cased and the others unchanged; a non-empty result does not start
\* with an upper-case letter, and an empty PascalCase form gives ""
C13_CamelFromPascal ==
    (Called("to_camel_case") \/ Called("generators::to_camel_case")) =>
        LET pascal == to_pascal_case(input)
            out == outputs[1].value
        IN  /\ ~outputs[1].panicked
            /\ pascal = <<>> => out = <<>>
            /\ pascal # <<>> =>
                   /\ out = char_to_lowercase(Head(pascal)) \o Tail(pascal)
                   /\ ~is_uppercase(out[1])

\* C14 as stated: to_kebab_case(x) is to_snake_case(x) with every "_"
\* replaced by "-", so it holds no "_" and no upper-case letter
C14_KebabNoUppercase ==
    Called("to_kebab_case") =>
        LET out == outputs[1].value
            snake == to_snake_case(input)
        IN  /\ Len(out) = Len(snake)
            /\ \A i \in 1..Len(out) : out[i] = IF snake[i] = "_" THEN "-" ELSE snake[i]
            /\ "_" \notin Range(out)
            /\ \A i \in 1..Len(out) : ~is_uppercase(out[i])

\* C14: to_kebab_case(x) is to_snake_case(x) with every "_" replaced by "-";
\* it holds no "_", and no upper-case letter that has a lower-case form
C14_KebabFromSnake ==
    Called("to_kebab_case") =>
        LET out == outputs[1].value
            snake == to_snake_case(input)
        IN  /\ Len(out) = Len(snake)
            /\ \A i \in 1..Len(out) : out[i] = IF snake[i] = "_" THEN "-" ELSE snake[i]
            /\ "_" \notin Range(out)
            /\ \A i \in 1..Len(out) :
                   is_uppercase(out[i]) => char_to_lowercase(out[i]) = <<out[i]>>

\* two boundaries, one written "_" and one found before "U"
C14_Witness ==
    /\ Called("to_kebab_case") /\ input = <<"a", "_", "a", "U">>
    /\ outputs[1] = Ok(W("a-a-u"))

\* C15: to_title_case splits on "_", upper-cases the first character of each
\* piece and nothing else, and joins the pieces with one space: every "_"
\* of the input becomes a space, and no other space is added
C15_TitlePieces ==
    Called("generators::to_title_case") =>
        LET out == outputs[1].value
            Count(s, c) == Cardinality({i \in 1..Len(s) : s[i] = c})
        IN  /\ Len(out) = Len(input)
            /\ \A i \in 1..Len(input) :
                   out[i] = IF input[i] = "_" THEN " "
                            ELSE IF i = 1 \/ input[i - 1] = "_"
                                 THEN Head(char_to_uppercase(input[i]))
                                 ELSE input[i]
            /\ Count(out, " ") - Count(input, " ") = Count(input, "_")

\* an empty piece between two underscores still gets its space
C15_Witness ==
    /\ Called("generators::to_title_case") /\ input = <<"a", "_", "_", "U">>
    /\ outputs[1] = Ok(<<"A", " ", " ", "U">>)

\* C16: to_pascal_case, to_snake_case and pluralize map "" to ""
C16_EmptyToEmpty ==
    (input = <<>> /\ Len(calls) = 1
     /\ calls[1] \in {"to_pascal_case", "to_snake_case", "pluralize"}) =>
        outputs[1] = Ok(<<>>)

C16_Witness == input = <<>> /\ Called("pluralize") /\ outputs[1] = Ok(<<>>)

\* C18: is_valid_identifier(s) holds exactly when s is not empty, starts
\* with a letter or "_" and goes on with letters, digits and "_" only
C18_ValidIdentifier ==
    Called("is_valid_identifier") =>
        /\ outputs[1].value =
               (/\ Len(input) >= 1
                /\ (is_alphabetic(input[1]) \/ input[1] = "_")
                /\ \A i \in 2..Len(input) : IsAlphanumeric(input[i]) \/ input[i] = "_")
        /\ input \in {W("_private"), W("User123")} => outputs[1].value = TRUE
        /\ input \in {<<>>, W("123user"), W("user-name")} => outputs[1].value = FALSE

\* a digit is accepted after the first character, and only there
C18_Witness ==
    /\ Called("is_valid_identifier") /\ input = W("User123") /\ outputs[1] = Ok(TRUE)

C18_WitnessRejected ==
    /\ Called("is_valid_identifier") /\ input = W("123user") /\ outputs[1] = Ok(FALSE)

\* C19: the three pluralize implementations return the same string for
\* every word, the empty word and "day" included
C19_SamePlural ==
    (Len(calls) = 1 /\ calls[1] \in {"pluralize", "generators::pluralize", "make::pluralize"}) =>
        /\ outputs[1] = pluralize(input)
        /\ outputs[1] = gen_pluralize(input)
        /\ outputs[1] = make_pluralize(input)

\* C20: for every name, name_variations returns a map with exactly the eight
\* keys, name mapped to the input and every other key to its transformation
\* of the raw input
C20_NameVariations ==
    Called("name_variations") =>
        /\ ~outputs[1].panicked
        /\ DOMAIN outputs[1].value =
               {"name", "snake_case", "pascal_case", "camel_case", "kebab_case",
                "title_case", "plural", "singular"}
        /\ outputs[1].value.name = input
        /\ outputs[1].value.snake_case = to_snake_case(input)
        /\ outputs[1].value.pascal_case = to_pascal_case(input)
        /\ outputs[1].value.camel_case = to_camel_case(input)
        /\ outputs[1].value.kebab_case = to_kebab_case(input)
        /\ outputs[1].value.title_case = to_title_case(input)
        /\ Ok(outputs[1].value.plural) = gen_pluralize(input)
        /\ Ok(outputs[1].value.singular) = gen_singularize(input)

\* C21: generators::to_camel_case (byte slice at offset 1) returns the same
\* result as TextUtils::to_camel_case (character iterator) for every input,
\* a first character of more than one byte included
C21_SameCamelCase ==
    (Called("to_camel_case") \/ Called("generators::to_camel_case")) =>
        /\ outputs[1] = Ok(to_camel_case(input))
        /\ outputs[1] = gen_to_camel_case(input)

\* the text is "true" or "false" in some letter case
IsBooleanText(s) ==
    /\ Len(s) \in {4, 5}
    /\ \E word \in {W("true"), W("false")} :
           /\ Len(s) = Len(word)
           /\ \A i \in 1..Len(s) :
                  s[i] = word[i] \/ s[i] = Head(char_to_uppercase(word[i]))

\* the text is a decimal integer of the range -2^63 .. 2^63 - 1
IsIntegerText(s) ==
    \E sign \in {<<>>, <<"+">>, <<"-">>} :
        LET digits == SubSeq(s, Len(sign) + 1, Len(s))
            magnitude == strip_leading_zeros(digits)
        IN  /\ str_starts_with(s, sign)
            /\ digits # <<>>
            /\ \A i \in 1..Len(digits) : digits[i] \in Range(Digits)
            /\ DigitsLeq(magnitude, IF sign = <<"-">> THEN I64MinDigits ELSE I64MaxDigits)

\* the text is a float literal: a signed decimal number with an optional
\* exponent, or a signed inf, infinity or nan
IsFloatText(s) ==
    \E sign \in {<<>>, <<"+">>, <<"-">>} :
        LET body == SubSeq(s, Len(sign) + 1, Len(s))
            IsDigits(d) == \A i \in 1..Len(d) : d[i] \in Range(Digits)
            IsDecimal(d) ==
                \E k \in 0..Len(d) :
                    \/ k = Len(d) /\ d # <<>> /\ IsDigits(d)
                    \/ /\ k < Len(d) /\ d[k + 1] = "."
                       /\ IsDigits(SubSeq(d, 1, k)) /\ IsDigits(SubSeq(d, k + 2, Len(d)))
                       /\ Len(d) > 1
            IsExponent(x) ==
                \E xs \in {<<>>, <<"+">>, <<"-">>} :
                    /\ str_starts_with(x, xs)
                    /\ Len(x) > Len(xs)
                    /\ IsDigits(SubSeq(x, Len(xs) + 1, Len(x)))
        IN  /\ str_starts_with(s, sign)
            /\ \/ str_to_lowercase(body) \in {W("inf"), W("infinity"), W("nan")}
                  /\ \A i \in 1..Len(body) : len_utf8(body[i]) = 1
               \/ IsDecimal(body)
               \/ \E k \in 1..Len(body) :
                      /\ body[k] \in {"e", "E"}
                      /\ IsDecimal(SubSeq(body, 1, k - 1))
                      /\ IsExponent(SubSeq(body, k + 1, Len(body)))

\* C29: parse_config_value classifies by the first matching test in the
\* order boolean, integer, float, string: "true"/"false" in any letter case
\* give a boolean, an i64 text gives an integer and never a float, a text
\* that is only a float gives a float, anything else the string unchanged
C29_ParseOrder ==
    Called("parse_config_value") =>
        LET out == outputs[1].value
        IN  /\ out.kind =
                   IF IsBooleanText(input) THEN "Boolean"
                   ELSE IF IsIntegerText(input) THEN "Integer"
                   ELSE IF IsFloatText(input) THEN "Float"
                   ELSE "String"
            /\ out.kind = "Boolean" => out.scalar = str_to_lowercase(input)
            /\ out.kind = "String" => out.scalar = input
            /\ input = W("true") => out = Boolean(TRUE)
            /\ input = W("false") => out = Boolean(FALSE)
            /\ input = W("42") => out = Integer(W("42"))
            /\ input = W("3.14") => out = Float("finite", FALSE, W("314"), 0 - 2)
            /\ input = W("hello") => out = String(W("hello"))
            /\ input = W("007") => out = Integer(W("7"))

\* one past i64::MAX fails the integer test and passes the float test
C29_Witness ==
    /\ Called("parse_config_value")
    /\ input = W("9223372036854775808")
    /\ outputs[1] = Ok(Float("finite", FALSE, W("9223372036854775808"), 0))

\* the fragments of the list as written, and each with "." for every "_"
SensitiveForms ==
    {W("app.key"), W("database.connections.default.password"),
     W("cache.redis.password"),
     W("jwt_secret"), W("jwt.secret"), W("mail_password"), W("mail.password"),
     W("aws_secret_access_key"), W("aws.secret.access.key"),
     W("sentry_dsn"), W("sentry.dsn"), W("api_key"), W("api.key"),
     W("secret"), W("token"), W("private_key"), W("private.key")}

\* C30: is_sensitive_key(k) is true exactly when the lower-cased key
\* contains a listed fragment, as written or with "." for each "_"; app.key,
\* database.connections.default.password, cache.redis.password and every key
\* containing "secret" or "token" are sensitive; app.name,
\* database.connections.default.host and logging.level are not
C30_SensitiveKey ==
    Called("is_sensitive_key") =>
        LET lower == str_to_lowercase(input)
            Has(form) == \E i \in 1..Len(lower), j \in 1..Len(lower) :
                             SubSeq(lower, i, j) = form
        IN  /\ outputs[1].value = (\E form \in SensitiveForms : Has(form))
            /\ input \in {W("app.key"), W("database.connections.default.password"),
                          W("cache.redis.password")} => outputs[1].value = TRUE
            /\ (\E i \in 1..Len(input), j \in 1..Len(input) :
                    SubSeq(input, i, j) \in {W("secret"), W("token")})
                   => outputs[1].value = TRUE
            /\ input \in {W("app.name"), W("database.connections.default.host"),
                          W("logging.level")} => outputs[1].value = FALSE

\* the dotted form of "api_key", in upper case, inside a longer key
C30_Witness ==
    /\ Called("is_sensitive_key")
    /\ input = W("aAPI.KEY.") /\ outputs[1] = Ok(TRUE)

\* p is a proper prefix of the dotted key k: the parts of p are the first
\* parts of k, and k has more
IsProperPrefixKey(p, k) ==
    LET pp == split(p, ".")
        kp == split(k, ".")
    IN  Len(pp) < Len(kp) /\ SubSeq(kp, 1, Len(pp)) = pp

\* the proper prefixes of the dotted key k, as lists of parts
ProperPrefixes(k) == {SubSeq(split(k, "."), 1, n) : n \in 1..(Len(split(k, ".")) - 1)}

\* the keys whose values are compared before and after a command
ProbeKeys == SetKeys \cup GetKeys

\* the command that just returned is config:set or config:generate-key
SetReturned(outcome) == outcome.name \in {"config:set", "config:generate-key"}

\* C27 as stated: when set_nested_value(config, k, v) returns Ok,
\* get_nested_value(config, k) returns v, every proper prefix of k holds a
\* table, and every key that is neither k nor a prefix of k keeps its value
C27_EveryOtherKeyKept ==
    [][(SetReturned(last_command') /\ last_command'.ok) =>
            LET k == last_command'.key
                before == rustisan_toml.config
                after == last_command'.config.value
            IN  /\ get_nested_value(after, k) = last_command'.value
                /\ \A p \in ProperPrefixes(k) :
                       /\ get_nested_at(after, p).some
                       /\ get_nested_at(after, p).value.kind = "Table"
                /\ \A k2 \in ProbeKeys :
                       (k2 # k /\ ~IsProperPrefixKey(k2, k)) =>
                           get_nested_value(after, k2) = get_nested_value(before, k2)
      ]_vars

\* C27: when set_nested_value(config, k, v) returns Ok,
\* get_nested_value(config, k) returns v, every proper prefix of k holds a
\* table, and every key that is neither k, nor a prefix of k, nor k followed
\* by further parts keeps its value
C27_SetGetRoundTrip ==
    [][(SetReturned(last_command') /\ last_command'.ok) =>
            LET k == last_command'.key
                before == rustisan_toml.config
                after == last_command'.config.value
            IN  /\ get_nested_value(after, k) = last_command'.value
                /\ \A p \in ProperPrefixes(k) :
                       /\ get_nested_at(after, p).some
                       /\ get_nested_at(after, p).value.kind = "Table"
                /\ \A k2 \in ProbeKeys :
                       (k2 # k /\ ~IsProperPrefixKey(k2, k) /\ ~IsProperPrefixKey(k, k2)) =>
                           get_nested_value(after, k2) = get_nested_value(before, k2)
      ]_vars

\* mail.smtp.host set in a file without [mail]: both tables were created,
\* and the value is read back
C27_Witness ==
    /\ last_command.name = "config:set" /\ last_command.ok
    /\ last_command.key = W("mail.smtp.host")
    /\ get_nested_value(rustisan_toml.config, W("mail.smtp")).value.kind = "Table"
    /\ get_nested_value(rustisan_toml.config, W("mail.smtp.host")) = Some(String(W("local")))
    /\ get_nested_value(rustisan_toml.config, W("app.name")) = Some(String(W("Rustisan App")))

\* C28: set_nested_value returns an error exactly when a proper prefix of
\* the dotted key already holds a value that is not a table; the
\* configuration is then as it was, no table inserted, and set_config_value
\* does not rewrite rustisan.toml
C28_ErrorLeavesConfig ==
    [][(SetReturned(last_command') /\ is_rustisan_project) =>
            LET k == last_command'.key
                before == rustisan_toml.config
                Blocked == \E p \in ProperPrefixes(k) :
                               /\ get_nested_at(before, p).some
                               /\ get_nested_at(before, p).value.kind # "Table"
            IN  /\ ~last_command'.ok <=> Blocked
                /\ ~last_command'.ok =>
                       /\ last_command'.config = Some(before)
                       /\ rustisan_toml' = rustisan_toml
      ]_vars

\* app.name holds a string, so app.name.first cannot be set: the file is
\* still the default one
C28_Witness ==
    /\ last_command.name = "config:set" /\ ~last_command.ok
    /\ last_command.key = W("app.name.first")
    /\ last_command.config = Some(create_default_config)
    /\ rustisan_toml = File(create_default_config)

\* C23: processed_jobs counts the jobs whose processing succeeded: a step
\* adds exactly 1 when process_job returned Ok, leaves it unchanged when the
\* job failed (the job goes to mark_job_as_failed) or when there was no job,
\* and never lowers it; the worker stops on --max-jobs only when that many
\* jobs succeeded, failed ones not counted
C23_CountsSuccesses ==
    [][/\ processed_jobs' >= processed_jobs
       /\ (worker = "process_job" /\ job' = "completed") =>
              /\ processed_jobs' = processed_jobs + 1
              /\ failed_jobs' = failed_jobs
       /\ (worker = "process_job" /\ job' = "failed") =>
              /\ processed_jobs' = processed_jobs
              /\ failed_jobs' = failed_jobs + 1
       /\ worker # "process_job" =>
              /\ processed_jobs' = processed_jobs
              /\ failed_jobs' = failed_jobs
       /\ (stopped_by' = "max_jobs" /\ max_jobs.value >= 1) =>
              /\ job' = "completed"
              /\ processed_jobs' = max_jobs.value
      ]_vars

\* --max-jobs 2: three jobs were handled, two of them failed, and the
\* worker goes on
C23_Witness ==
    /\ max_jobs = Some(2) /\ memory = NoLimit
    /\ processed_jobs = 1 /\ failed_jobs = 2
    /\ job = "failed" /\ worker = "sleep"

\* C24: with max_jobs = Some(n), n >= 1, processed_jobs <= n in every
\* state, and the worker leaves its loop in the iteration in which
\* processed_jobs reaches n; the limit is checked only at the end of an
\* iteration that handled a job
C24_MaxJobsBound ==
    /\ (max_jobs.some /\ max_jobs.value >= 1) =>
           /\ processed_jobs <= max_jobs.value
           /\ processed_jobs = max_jobs.value => worker = "returned"
    /\ stopped_by = "max_jobs" =>
           /\ max_jobs.some /\ processed_jobs >= max_jobs.value
           /\ job \in {"completed", "failed"}

\* the second success of --max-jobs 2 ends the loop
C24_Witness ==
    /\ max_jobs = Some(2) /\ processed_jobs = 2 /\ failed_jobs = 1
    /\ job = "completed" /\ worker = "returned" /\ stopped_by = "max_jobs"

\* C25: the memory check follows every handled job and comes before the
\* max-jobs check, against a usage of 64 MB: with memory = Some(m), m < 64,
\* the worker stops after the first job it handles, completed or failed, so
\* processed_jobs <= 1; with m >= 64 or no --memory the memory check never
\* stops the worker
C25_MemoryCheck ==
    /\ (memory.some /\ memory.value < 64) =>
           /\ processed_jobs + failed_jobs <= 1
           /\ processed_jobs <= 1
           /\ processed_jobs + failed_jobs = 1 =>
                  worker = "returned" /\ stopped_by = "memory"
    /\ (~memory.some \/ memory.value >= 64) => stopped_by # "memory"
    /\ stopped_by = "memory" => job \in {"completed", "failed"}

\* both limits are hit by the first job: the memory check is the one that
\* stops the worker
C25_Witness ==
    /\ memory = Some(63) /\ max_jobs = Some(1)
    /\ processed_jobs = 1 /\ job = "completed"
    /\ worker = "returned" /\ stopped_by = "memory"

\* the first job failed, and the worker stops as well
C25_WitnessFailed ==
    /\ memory = Some(32) /\ processed_jobs = 0 /\ failed_jobs = 1
    /\ job = "failed" /\ worker = "returned" /\ stopped_by = "memory"

\* C26: with no --max-jobs and no memory limit below 64 MB work_queue never
\* leaves its loop; with max_jobs = Some(n), when jobs keep becoming
\* available and processing succeeds again and again, work_queue leaves
\* its loop and returns Ok
C26_Termination ==
    /\ []((~max_jobs.some /\ (~memory.some \/ memory.value >= 64)) => worker # "returned")
    /\ (max_jobs.some ~> worker = "returned")

\* three successes among five handled jobs end a worker of --max-jobs 3
C26_Witness ==
    /\ max_jobs = Some(3) /\ memory = NoLimit
    /\ processed_jobs = 3 /\ failed_jobs = 2
    /\ worker = "returned" /\ stopped_by = "max_jobs"

\* the ctrl_c branch waits for the mutex, the closure holds it inside
\* child.wait(), and the child is running: nothing the command does can go on
CtrlCBlocked ==
    /\ serve = "ctrl_c_lock"
    /\ child_mutex = "blocking_task" /\ blocking_task = "wait"
    /\ child = "running"

\* C22: when Ctrl+C arrives while the child is running, the ctrl_c branch
\* acquires the child's mutex, kills the child, waits for it and returns Ok;
\* it is never blocked by the spawn_blocking closure that holds the same
\* mutex while it waits for the child to exit
C22_CtrlCNeverBlocked == ~CtrlCBlocked

====
